---- MODULE Spec2Model ----
(***************************************************************************)
(* OpenDataCubeProvider (src/odcprovider/odcprovider.py): a pygeoapi       *)
(* coverage provider on top of an Open Data Cube catalog.                  *)
(*                                                                         *)
(* The provider object is built once from a provider definition and the    *)
(* catalog (__init__, _get_coverage_properties,                            *)
(* _get_measurement_properties) and then serves query(), gen_covjson(),    *)
(* get_coverage_domainset() and get_coverage_rangetype().                  *)
(*                                                                         *)
(* Numbers: coordinates and resolutions are integers; a Python float       *)
(* division a / b is kept as the exact fraction in lowest terms            *)
(* ([num, den], den > 0), so a non-integral width or height stays          *)
(* non-integral.  A loaded array is represented by its dimensions          *)
(* (time, rows, cols) and its flattened values by their number.            *)
(***************************************************************************)
EXTENDS Integers, Sequences, FiniteSets, TLC

VARIABLES
    provider_def,   \* the provider definition handed to __init__
    catalog,        \* what the Open Data Cube index holds (external)
    state,          \* "new" | "constructed" | "failed"
    self,           \* the provider's fields after __init__
    warnings,       \* LOGGER.warning diagnostics of __init__
    call,           \* the last public call and its arguments
    loads,          \* the dc.load() invocations of the last call (params)
    encoded,        \* the encoders run by the last call, in order
    raised,         \* the exception the last call ended in, or None
    result          \* the value the last call returned, or None

vars == <<provider_def, catalog, state, self, warnings,
          call, loads, encoded, raised, result>>

None == "None"
NoKey == "<missing>"

(***************************************************************************)
(* Bounds of the model.                                                    *)
(***************************************************************************)
MaxDatasets == 2    \* datasets indexed for the product
MaxBands == 2       \* length of range_subset
MaxTimes == 2       \* time slices a load can return

(***************************************************************************)
(* Plain helpers (Python built-ins).                                       *)
(***************************************************************************)
Abs(n) == IF n < 0 THEN -n ELSE n

Min2(a, b) == IF a < b THEN a ELSE b

Max2(a, b) == IF a > b THEN a ELSE b

RECURSIVE Gcd(_, _)
Gcd(a, b) == IF b = 0 THEN a ELSE Gcd(b, a % b)

\* Python's true division a / b of two numbers, b # 0, as an exact fraction.
Div(a, b) ==
    LET g == Gcd(Abs(a), Abs(b))
        s == IF b < 0 THEN -1 ELSE 1
    IN  [num |-> (s * a) \div g, den |-> (s * b) \div g]

\* abs() of a fraction.
FAbs(q) == [num |-> Abs(q.num), den |-> q.den]

\* math.floor and math.ceil of n / d, d > 0.
FloorDiv(n, d) == n \div d

CeilDiv(n, d) == -((-n) \div d)

\* The distinct elements of a sequence in the order of their first
\* occurrence: the key order of a dict filled by iterating the sequence.
RECURSIVE DictKeys(_)
DictKeys(s) ==
    IF s = <<>> THEN <<>>
    ELSE LET init == DictKeys(SubSeq(s, 1, Len(s) - 1))
             last == s[Len(s)]
         IN  IF \E i \in 1..Len(init) : init[i] = last
             THEN init ELSE Append(init, last)

Range(s) == {s[i] : i \in 1..Len(s)}

SeqsUpTo(S, n) == UNION {[1..k -> S] : k \in 0..n}

(***************************************************************************)
(* Coordinate reference systems (pyproj / datacube CRS objects): the EPSG  *)
(* code, whether the CRS is projected, and its axis units.                 *)
(***************************************************************************)
WGS84 == [epsg |-> 4326, projected |-> FALSE, units |-> <<"degree", "degree">>]

UTM33N == [epsg |-> 32633, projected |-> TRUE, units |-> <<"metre", "metre">>]

\* datacube.utils.geometry.CRS(crs_str)
CRS_dc(crs_str) == IF crs_str = "EPSG:4326" THEN WGS84 ELSE UTM33N

\* CRS.from_epsg(4326), the CRS in which a bbox is given
BboxEpsg == 4326

\* Transformer.from_crs(EPSG:4326, native, always_xy=True).transform(x, y):
\* the projection itself is external; this stand-in is a fixed injective
\* map that moves every point.
Transform(x, y) == <<100 + 10 * x, 10 * y - 300>>

(***************************************************************************)
(* The catalog (external): one product "s2" with its product-level         *)
(* metadata row, its datasets and its measurement table.                   *)
(***************************************************************************)
ProductName == "s2"

NaN == <<>>          \* a 'resolution' cell that is not a tuple

Dataset(l, b, r, t, crs, resx, resy) ==
    [bounds |-> [left |-> l, bottom |-> b, right |-> r, top |-> t],
     crs |-> crs,
     transform |-> <<resx, 0, l, 0, resy, t>>]

DatasetChoices ==
    { Dataset(8, 38, 14, 44, WGS84, 2, -2),
      Dataset(10, 40, 19, 52, WGS84, 3, -3),
      Dataset(100, 200, 140, 240, UTM33N, 4, -4),
      Dataset(120, 180, 150, 220, UTM33N, 4, -2) }

ProductResolutions == {NaN, <<-2, 2>>}       \* (y, x) order

ProductCrs == {None, "NaN", "EPSG:4326", "EPSG:32633"}

Measurement(name, dtype, nodata, units) ==
    [name |-> name, dtype |-> dtype, nodata |-> nodata, units |-> units]

MeasurementTables ==
    { [aliases_column |-> TRUE,
       rows |-> << Measurement("B02", "int16", -999, "reflectance"),
                   Measurement("B03", "float32", 0, "1") >>],
      [aliases_column |-> FALSE,
       rows |-> << Measurement("B03", "uint8", 255, "1") >>] }

Catalogs ==
    [reachable : BOOLEAN,
     resolution : ProductResolutions,
     crs : ProductCrs,
     datasets : SeqsUpTo(DatasetChoices, MaxDatasets),
     measurements : MeasurementTables]

ProviderDefs ==
    [product : {ProductName, "unknown", NoKey},
     format : {"GTiff", NoKey},
     options : {<<>>}]

(***************************************************************************)
(* _get_coverage_properties                                                *)
(***************************************************************************)
\* datacube.utils.geometry.bbox_union over a non-empty list of bounds
RECURSIVE bbox_union(_)
bbox_union(bbs) ==
    IF Len(bbs) = 1 THEN bbs[1]
    ELSE LET u == bbox_union(SubSeq(bbs, 1, Len(bbs) - 1))
             bb == bbs[Len(bbs)]
         IN  [left |-> Min2(u.left, bb.left),
              bottom |-> Min2(u.bottom, bb.bottom),
              right |-> Max2(u.right, bb.right),
              top |-> Max2(u.top, bb.top)]

\* 'width': abs((bounds.right - bounds.left)/resx)
GridWidth(bounds, resx) == FAbs(Div(bounds.right - bounds.left, resx))

\* Variant: the height counts both end rows, (top - bottom + 1) / resy.
GridHeightOffByOne(bounds, resy) ==
    FAbs(Div(bounds.top - bounds.bottom + 1, resy))

\* 'height': abs((bounds.top - bounds.bottom)/resy)
GridHeight(bounds, resy) == FAbs(Div(bounds.top - bounds.bottom, resy))

\* The warnings logged when the datasets disagree.
HeterogeneityWarnings(datasets) ==
    LET crs_list == {datasets[i].crs : i \in 1..Len(datasets)}
        resx_list == {datasets[i].transform[1] : i \in 1..Len(datasets)}
        resy_list == {datasets[i].transform[5] : i \in 1..Len(datasets)}
        transform_list == {datasets[i].transform : i \in 1..Len(datasets)}
    IN  (IF Cardinality(crs_list) > 1 THEN {"different crs"} ELSE {})
        \cup (IF Cardinality(resx_list) > 1 \/ Cardinality(resy_list) > 1
              THEN {"different resolutions"} ELSE {})
        \cup (IF Cardinality(transform_list) > 1
              THEN {"different transforms"} ELSE {})

\* crs_obj: the product-level CRS unless it is None or null
ResolveCrs(crs_str, datasets) ==
    IF crs_str = None \/ crs_str = "NaN"
    THEN datasets[1].crs
    ELSE CRS_dc(crs_str)

\* resx: res[1] of the product-level tuple, else the first dataset's
ResolveResx(res, datasets) ==
    IF res # NaN THEN res[2] ELSE datasets[1].transform[1]

\* resy: res[0] of the product-level tuple, else the first dataset's
ResolveResy(res, datasets) ==
    IF res # NaN THEN res[1] ELSE datasets[1].transform[5]

\* Variant: the transform of the dataset listed last.
ResolveTransformLast(datasets) == datasets[Len(datasets)].transform

\* transform = transform_list[0]
ResolveTransform(datasets) == datasets[1].transform

\* The properties dict, given the resolved values.
CoverageProperties(bounds, crs_obj, resx, resy, transform, num_bands) ==
    LET x_axis_label == IF crs_obj.projected THEN "x" ELSE "Lon"
        y_axis_label == IF crs_obj.projected THEN "y" ELSE "Lat"
    IN  [bbox |-> <<bounds.left, bounds.bottom, bounds.right, bounds.top>>,
         crs_uri |-> IF crs_obj.projected
                     THEN <<"http://www.opengis.net/def/crs/EPSG/9.8.15",
                            crs_obj.epsg>>
                     ELSE <<"http://www.opengis.net/def/crs/OGC/1.3/CRS84">>,
         crs_type |-> IF crs_obj.projected THEN "ProjectedCRS"
                      ELSE "GeographicCRS",
         bbox_units |-> IF crs_obj.projected THEN crs_obj.units[1] ELSE "deg",
         x_axis_label |-> x_axis_label,
         y_axis_label |-> y_axis_label,
         width |-> GridWidth(bounds, resx),
         height |-> GridHeight(bounds, resy),
         resx |-> resx,
         resy |-> resy,
         transform |-> transform,
         num_bands |-> num_bands,
         axes |-> <<x_axis_label, y_axis_label>>]

NoProperties == [bbox |-> <<>>]

\* _get_coverage_properties(): [raised, properties, crs_obj, warnings]
get_coverage_properties(product_name, cat) ==
    IF product_name # ProductName
    THEN \* product_metadata.iloc[0] on an empty frame
         [raised |-> "IndexError", properties |-> NoProperties,
          crs_obj |-> None, warnings |-> {}]
    ELSE IF cat.datasets = <<>>
    THEN \* crs_list[0] / resx_list[0] / transform_list[0] on an empty list
         [raised |-> "IndexError", properties |-> NoProperties,
          crs_obj |-> None, warnings |-> {}]
    ELSE LET datasets == cat.datasets
             bbs == [i \in 1..Len(datasets) |-> datasets[i].bounds]
             bounds == bbox_union(bbs)
             crs_obj == ResolveCrs(cat.crs, datasets)
             resx == ResolveResx(cat.resolution, datasets)
             resy == ResolveResy(cat.resolution, datasets)
             transform == ResolveTransform(datasets)
         IN  [raised |-> None,
              properties |-> CoverageProperties(bounds, crs_obj, resx, resy,
                                 transform, Len(cat.measurements.rows)),
              crs_obj |-> crs_obj,
              warnings |-> HeterogeneityWarnings(datasets)]

(***************************************************************************)
(* _get_measurement_properties                                             *)
(***************************************************************************)
get_measurement_properties(table) ==
    [row \in 1..Len(table.rows) |->
        [id |-> row,
         name |-> table.rows[row].name,
         dtype |-> table.rows[row].dtype,
         nodata |-> table.rows[row].nodata,
         unit |-> table.rows[row].units,
         aliases |-> IF table.aliases_column THEN <<table.rows[row].name>>
                     ELSE <<>>]]

(***************************************************************************)
(* __init__: [raised, self, warnings]                                      *)
(***************************************************************************)
NoSelf == [product_name |-> None]

ProviderInit(pd, cat) ==
    IF ~cat.reachable
    THEN \* datacube.Datacube(config=...) raises, outside the try block
         [raised |-> "IndexSetupError", self |-> NoSelf, warnings |-> {}]
    ELSE IF pd.product = NoKey
    THEN \* provider_def['product'], outside the try block
         [raised |-> "KeyError", self |-> NoSelf, warnings |-> {}]
    ELSE LET cp == get_coverage_properties(pd.product, cat)
         IN  IF cp.raised # None \/ pd.format = NoKey
             THEN \* except Exception as err: raise ProviderConnectionError
                  [raised |-> "ProviderConnectionError", self |-> NoSelf,
                   warnings |-> cp.warnings]
             ELSE [raised |-> None,
                   self |-> [product_name |-> pd.product,
                             crs_obj |-> cp.crs_obj,
                             coverage_properties |-> cp.properties,
                             measurement_properties |->
                                 get_measurement_properties(cat.measurements),
                             crs |-> cp.properties.crs_uri,
                             axes |-> cp.properties.axes,
                             num_bands |-> cp.properties.num_bands,
                             fields |-> [n \in 1..cp.properties.num_bands |-> n],
                             native_format |-> pd.format,
                             options |-> pd.options],
                   warnings |-> cp.warnings]

Construct ==
    /\ state = "new"
    /\ LET r == ProviderInit(provider_def, catalog)
       IN  /\ state' = IF r.raised = None THEN "constructed" ELSE "failed"
           /\ self' = r.self
           /\ warnings' = r.warnings
           /\ raised' = r.raised
    /\ call' = [op |-> "__init__"]
    /\ loads' = <<>>
    /\ encoded' = <<>>
    /\ result' = None
    /\ UNCHANGED <<provider_def, catalog>>

(***************************************************************************)
(* The external load, datacube.Datacube.load(product=..., **params).       *)
(*                                                                         *)
(* What it returns is not decided by the provider: the number of time      *)
(* slices found for the window (none: an empty Dataset) and the attributes *)
(* of each band are inputs of the query.  The grid it returns is the pixel *)
(* grid of the native resolution, shifted by 'align', that covers the      *)
(* requested x and y ranges (GeoBox.from_geopolygon).                      *)
(***************************************************************************)
\* Number of pixels of size |res|, on the grid offset by |res| / 2, that
\* cover [lo, hi]; computed on doubled coordinates to stay in integers.
AlignPix(lo, hi, res) ==
    LET a == Abs(res)
        val2 == IF res < 0
                THEN CeilDiv(2 * hi - a, 2 * a) * 2 * a + a
                ELSE FloorDiv(2 * lo - a, 2 * a) * 2 * a + a
        span2 == IF res < 0 THEN val2 - 2 * lo ELSE 2 * hi - val2
    IN  Max2(1, CeilDiv(10 * span2 - 2 * a, 20 * a))

NoDataset == [keys |-> <<>>, times |-> 0]

\* dc.load: [raised, dataset]
dc_load(cat, res, params, times, no_units) ==
    LET known == {cat.measurements.rows[i].name :
                     i \in 1..Len(cat.measurements.rows)}
        keys == IF "measurements" \in DOMAIN params
                THEN DictKeys(params.measurements)
                ELSE [i \in 1..Len(cat.measurements.rows) |->
                         cat.measurements.rows[i].name]
    IN  IF \E i \in 1..Len(keys) : keys[i] \notin known
        THEN \* an unknown measurement name
             [raised |-> "KeyError", dataset |-> NoDataset]
        ELSE IF times = 0
        THEN \* no dataset matches: xarray.Dataset()
             [raised |-> None, dataset |-> NoDataset]
        ELSE [raised |-> None,
              dataset |-> [keys |-> keys,
                           times |-> times,
                           rows |-> AlignPix(params.y[1], params.y[2], res.y),
                           cols |-> AlignPix(params.x[1], params.x[2], res.x),
                           no_units |-> no_units]]

\* str(dataset[key].dtype)
BandDtype(cat, key) ==
    LET i == CHOOSE i \in 1..Len(cat.measurements.rows) :
                 cat.measurements.rows[i].name = key
    IN  cat.measurements.rows[i].dtype

\* dataset[key].attrs['units'] (when present)
BandUnits(cat, key) ==
    LET i == CHOOSE i \in 1..Len(cat.measurements.rows) :
                 cat.measurements.rows[i].name = key
    IN  cat.measurements.rows[i].units

(***************************************************************************)
(* gen_covjson(metadata, dataset): [raised, cj]                            *)
(***************************************************************************)
\* the band whose lookup dataset[bs].attrs['units'] fails, if any
MissingUnits(bands_select, dataset) ==
    \E i \in 1..Len(bands_select) :
        \/ bands_select[i] \notin Range(dataset.keys)
        \/ bands_select[i] = dataset.no_units

\* cj['ranges'][key]['values'] = dataset[key].values.flatten().tolist()
FlattenLen(dataset) == dataset.times * dataset.rows * dataset.cols

\* cj['parameters']: one entry per key, in insertion order
CovjsonParameters(cat, bands_select) ==
    LET keys == DictKeys(bands_select)
    IN  [i \in 1..Len(keys) |->
            [key |-> keys[i],
             type |-> "Parameter",
             description |-> keys[i],
             unit |-> BandUnits(cat, keys[i]),
             observedProperty |-> keys[i]]]

\* cj['ranges']: one entry per key of cj['parameters']
CovjsonRanges(cat, parameters, metadata, dataset) ==
    [i \in 1..Len(parameters) |->
        [key |-> parameters[i].key,
         type |-> "NdArray",
         dataType |-> BandDtype(cat, parameters[i].key),
         axisNames |-> <<"y", "x">>,
         shape |-> <<metadata.height, metadata.width>>,
         values |-> FlattenLen(dataset)]]

\* cj['domain']
CovjsonDomain(cp, metadata) ==
    [type |-> "Domain",
     domainType |-> "Grid",
     x |-> [start |-> metadata.bbox[1], stop |-> metadata.bbox[3],
            num |-> metadata.width],
     y |-> [start |-> metadata.bbox[2], stop |-> metadata.bbox[4],
            num |-> metadata.height],
     referencing |-> [coordinates |-> <<"x", "y">>,
                      type |-> cp.crs_type, id |-> cp.crs_uri]]

NoResult == [kind |-> None]

\* The try block around the 'ranges' loop catches IndexError only; nothing
\* in the loop indexes a list, so its ProviderQueryError is never raised.
gen_covjson(slf, cat, metadata, dataset) ==
    IF MissingUnits(metadata.bands, dataset)
    THEN \* dataset[bs].attrs['units'], before the try block
         [raised |-> "KeyError", cj |-> NoResult]
    ELSE LET parameters == CovjsonParameters(cat, metadata.bands)
         IN  [raised |-> None,
              cj |-> [kind |-> "CoverageJSON",
                      type |-> "Coverage",
                      domain |-> CovjsonDomain(slf.coverage_properties,
                                               metadata),
                      parameters |-> parameters,
                      ranges |-> CovjsonRanges(cat, parameters, metadata,
                                               dataset)]]

(***************************************************************************)
(* query(range_subset, subsets, bbox, datetime_, format_)                  *)
(***************************************************************************)
\* Variant: the exclusion test looks for the geographic labels only.
ExclusiveSubsetsLonLat(cp, subsets, bbox) ==
    /\ "Lon" \in DOMAIN subsets
    /\ "Lat" \in DOMAIN subsets
    /\ Len(bbox) > 0

\* all([x_axis_label in subsets, y_axis_label in subsets, len(bbox) > 0])
ExclusiveSubsets(cp, subsets, bbox) ==
    /\ cp.x_axis_label \in DOMAIN subsets
    /\ cp.y_axis_label \in DOMAIN subsets
    /\ Len(bbox) > 0

\* Variant: the named-axis branch takes maxx and maxy from the wrong axis.
SpatialSubsetCrossed(slf, subsets, bbox) ==
    LET cp == slf.coverage_properties
        x == cp.x_axis_label
        y == cp.y_axis_label
    IN  IF Len(bbox) > 0
        THEN IF BboxEpsg = slf.crs_obj.epsg
             THEN cp.bbox
             ELSE LET lo == Transform(bbox[1], bbox[2])
                      hi == Transform(bbox[3], bbox[4])
                  IN  <<lo[1], lo[2], hi[1], hi[2]>>
        ELSE IF x \in DOMAIN subsets /\ y \in DOMAIN subsets
        THEN <<subsets[x][1], subsets[y][1], subsets[y][2], subsets[x][2]>>
        ELSE cp.bbox

\* Variant: the initial bbox is unpacked as (minx, maxx, miny, maxy).
SpatialSubsetMisordered(slf, subsets, bbox) ==
    LET cp == slf.coverage_properties
        x == cp.x_axis_label
        y == cp.y_axis_label
    IN  IF Len(bbox) > 0
        THEN IF BboxEpsg = slf.crs_obj.epsg
             THEN cp.bbox
             ELSE LET lo == Transform(bbox[1], bbox[2])
                      hi == Transform(bbox[3], bbox[4])
                  IN  <<lo[1], lo[2], hi[1], hi[2]>>
        ELSE IF x \in DOMAIN subsets /\ y \in DOMAIN subsets
        THEN <<subsets[x][1], subsets[y][1], subsets[x][2], subsets[y][2]>>
        ELSE <<cp.bbox[1], cp.bbox[3], cp.bbox[2], cp.bbox[4]>>

\* The spatial subset: <<minx, miny, maxx, maxy>> after the bbox / subsets
\* branches, starting from the full extent of the collection.
SpatialSubset(slf, subsets, bbox) ==
    LET cp == slf.coverage_properties
        x == cp.x_axis_label
        y == cp.y_axis_label
    IN  IF Len(bbox) > 0
        THEN IF BboxEpsg = slf.crs_obj.epsg
             THEN \* 'source bbox CRS and data CRS are the same': only logged
                  cp.bbox
             ELSE LET lo == Transform(bbox[1], bbox[2])
                      hi == Transform(bbox[3], bbox[4])
                  IN  <<lo[1], lo[2], hi[1], hi[2]>>
        ELSE IF x \in DOMAIN subsets /\ y \in DOMAIN subsets
        THEN <<subsets[x][1], subsets[y][1], subsets[x][2], subsets[y][2]>>
        ELSE cp.bbox

\* Variant: 'measurements' is passed to the load even when no band is given.
LoadParamsAlwaysBands(slf, window, bands) ==
    LET cp == slf.coverage_properties
    IN  [measurements |-> bands,
         crs |-> <<"epsg", slf.crs_obj.epsg>>,
         align |-> <<FAbs(Div(cp.resy, 2)), FAbs(Div(cp.resx, 2))>>,
         x |-> <<window[1], window[3]>>,
         y |-> <<window[2], window[4]>>]

\* params of datacube.load()
LoadParams(slf, window, bands) ==
    LET cp == slf.coverage_properties
        base == [crs |-> <<"epsg", slf.crs_obj.epsg>>,
                 align |-> <<FAbs(Div(cp.resy, 2)), FAbs(Div(cp.resx, 2))>>,
                 x |-> <<window[1], window[3]>>,
                 y |-> <<window[2], window[4]>>]
    IN  IF Len(bands) > 0
        THEN [measurements |-> bands] @@ base
        ELSE base

\* out_meta, with the provider's options added
OutMeta(slf, window, bands) ==
    LET cp == slf.coverage_properties
    IN  slf.options @@
        [bbox |-> window,
         width |-> FAbs(Div(window[3] - window[1], cp.resx)),
         height |-> FAbs(Div(window[4] - window[2], cp.resy)),
         bands |-> bands]

\* str.lower() on the format names of the model
Lower(format_) ==
    CASE format_ = "GeoTIFF" -> "geotiff"
      [] format_ = "JSON" -> "json"
      [] OTHER -> format_

\* Variant: 'geotiff' is compared without lower().
SelectEncoderExact(format_) ==
    IF format_ = "json" THEN "CoverageJSON"
    ELSE IF format_ = "geotiff" THEN "GeoTIFF"
    ELSE "NetCDF"

\* The encoder a format selects.
SelectEncoder(format_) ==
    IF format_ = "json" THEN "CoverageJSON"
    ELSE IF Lower(format_) = "geotiff" THEN "GeoTIFF"
    ELSE "NetCDF"

\* Variant: dtype and nodata of the first band written, not of the first
\* measurement.
GeotiffMetaOfFirstBand(slf, out_meta, bands) ==
    LET mp == slf.measurement_properties
        m == CHOOSE i \in 1..Len(mp) : mp[i].name = bands[1]
    IN  [driver |-> "GTiff",
         crs |-> slf.crs_obj.epsg,
         dtype |-> mp[m].dtype,
         nodata |-> mp[m].nodata,
         count |-> Len(bands),
         transform |-> slf.coverage_properties.transform] @@ out_meta

\* out_meta of the GeoTIFF branch
GeotiffMeta(slf, out_meta, bands) ==
    [driver |-> "GTiff",
     crs |-> slf.crs_obj.epsg,
     dtype |-> slf.measurement_properties[1].dtype,
     nodata |-> slf.measurement_properties[1].nodata,
     count |-> Len(bands),
     transform |-> slf.coverage_properties.transform] @@ out_meta

\* The GeoTIFF branch: [raised, result]
geotiff(slf, out_meta, bands, dataset) ==
    IF dataset.times > 1
    THEN \* dataset.squeeze(dim='time') on more than one time slice
         [raised |-> "ValueError", result |-> NoResult]
    ELSE [raised |-> None,
          result |-> [kind |-> "GeoTIFF",
                      meta |-> GeotiffMeta(slf, out_meta, bands),
                      shape |-> <<Len(bands), dataset.rows, dataset.cols>>]]

\* The part of query() after the load: [raised, result, encoded]
Encode(slf, cat, window, range_subset, format_, dataset) ==
    LET bands == IF Len(range_subset) = 0 THEN dataset.keys
                 ELSE range_subset
        out_meta == OutMeta(slf, window, bands)
        encoder == SelectEncoder(format_)
    IN  IF encoder = "CoverageJSON"
        THEN LET r == gen_covjson(slf, cat, out_meta, dataset)
             IN  [raised |-> r.raised, result |-> r.cj,
                  encoded |-> <<"CoverageJSON">>]
        ELSE IF encoder = "GeoTIFF"
        THEN LET r == geotiff(slf, out_meta, bands, dataset)
             IN  [raised |-> r.raised, result |-> r.result,
                  encoded |-> <<"GeoTIFF">>]
        ELSE [raised |-> None,
              result |-> [kind |-> "NetCDF", dataset |-> dataset],
              encoded |-> <<"NetCDF">>]

\* query(): [raised, result, loads, encoded].  times and no_units are what
\* the external load finds.
query(slf, cat, range_subset, subsets, bbox, format_, times, no_units) ==
    LET cp == slf.coverage_properties
    IN  IF ExclusiveSubsets(cp, subsets, bbox)
        THEN [raised |-> "ProviderQueryError", result |-> NoResult,
              loads |-> <<>>, encoded |-> <<>>]
        ELSE
        LET window == SpatialSubset(slf, subsets, bbox)
            params == LoadParams(slf, window, range_subset)
            ld == dc_load(cat, [x |-> cp.resx, y |-> cp.resy], params,
                          times, no_units)
            loads_ == <<[params |-> params, dataset |-> ld.dataset]>>
        IN  IF ld.raised # None
            THEN [raised |-> ld.raised, result |-> NoResult,
                  loads |-> loads_, encoded |-> <<>>]
            ELSE IF ld.dataset.times = 0
            THEN \* dataset.time on an empty Dataset
                 [raised |-> "AttributeError", result |-> NoResult,
                  loads |-> loads_, encoded |-> <<>>]
            ELSE LET e == Encode(slf, cat, window, range_subset, format_,
                                 ld.dataset)
                 IN  [raised |-> e.raised, result |-> e.result,
                      loads |-> loads_, encoded |-> e.encoded]

(***************************************************************************)
(* The arguments a query is called with.                                   *)
(***************************************************************************)
BandNames == {"B02", "B03", "B99"}

RangeSubsets == SeqsUpTo(BandNames, MaxBands)

Subsets ==
    { <<>>,
      [Lon |-> <<10, 13>>, Lat |-> <<40, 43>>],
      [Lon |-> <<10, 10>>, Lat |-> <<40, 40>>],
      [x |-> <<110, 130>>, y |-> <<204, 222>>],
      [Lon |-> <<10, 13>>],
      [x |-> <<110, 130>>, Lat |-> <<40, 43>>] }

Bboxes == {<<>>, <<10, 40, 20, 50>>}

Formats == {"json", "JSON", "geotiff", "GeoTIFF", "netcdf"}

\* the band the load returns without a 'units' attribute, if any
NoUnits == {None, "B02"}

\* Variant: the query keeps its resolved window as the coverage bbox.
QueryKeepingWindow ==
    /\ state = "constructed"
    /\ call.op = None
    /\ \E range_subset \in RangeSubsets, subsets \in Subsets,
          bbox \in Bboxes, format_ \in Formats,
          times \in 0..MaxTimes, no_units \in NoUnits :
          LET r == query(self, catalog, range_subset, subsets, bbox,
                         format_, times, no_units)
          IN  /\ call' = [op |-> "query", range_subset |-> range_subset,
                          subsets |-> subsets, bbox |-> bbox,
                          format_ |-> format_]
              /\ loads' = r.loads
              /\ encoded' = r.encoded
              /\ raised' = r.raised
              /\ result' = r.result
              /\ self' = IF Len(r.loads) = 1
                         THEN [self EXCEPT !.coverage_properties.bbox =
                                  <<r.loads[1].params.x[1],
                                    r.loads[1].params.y[1],
                                    r.loads[1].params.x[2],
                                    r.loads[1].params.y[2]>>]
                         ELSE self
    /\ UNCHANGED <<provider_def, catalog, state, warnings>>

\* query() assigns to locals only (bands, minx..maxy, params, out_meta):
\* no field of the provider is written.
Query ==
    /\ state = "constructed"
    /\ call.op = None
    /\ \E range_subset \in RangeSubsets, subsets \in Subsets,
          bbox \in Bboxes, format_ \in Formats,
          times \in 0..MaxTimes, no_units \in NoUnits :
          LET r == query(self, catalog, range_subset, subsets, bbox,
                         format_, times, no_units)
          IN  /\ call' = [op |-> "query", range_subset |-> range_subset,
                          subsets |-> subsets, bbox |-> bbox,
                          format_ |-> format_]
              /\ loads' = r.loads
              /\ encoded' = r.encoded
              /\ raised' = r.raised
              /\ result' = r.result
    /\ UNCHANGED <<provider_def, catalog, state, self, warnings>>

(***************************************************************************)
(* get_coverage_domainset() and get_coverage_rangetype()                   *)
(***************************************************************************)
get_coverage_domainset(slf) ==
    LET cp == slf.coverage_properties
    IN  [kind |-> "DomainSetType",
         srsName |-> cp.crs_uri,
         axisLabels |-> <<cp.x_axis_label, cp.y_axis_label>>,
         axis |-> << [axisLabel |-> cp.x_axis_label,
                      lowerBound |-> cp.bbox[1], upperBound |-> cp.bbox[3],
                      uomLabel |-> cp.bbox_units, resolution |-> cp.resx],
                     [axisLabel |-> cp.y_axis_label,
                      lowerBound |-> cp.bbox[2], upperBound |-> cp.bbox[4],
                      uomLabel |-> cp.bbox_units, resolution |-> cp.resy] >>,
         gridLimits |-> << [axisLabel |-> "i", lowerBound |-> 0,
                            upperBound |-> cp.width],
                           [axisLabel |-> "j", lowerBound |-> 0,
                            upperBound |-> cp.height] >>]

get_coverage_rangetype(slf) ==
    [kind |-> "DataRecordType",
     field |-> [row \in 1..Len(slf.measurement_properties) |->
                   [id |-> slf.measurement_properties[row].id,
                    type |-> "QuantityType",
                    name |-> slf.measurement_properties[row].name,
                    definition |-> slf.measurement_properties[row].dtype,
                    nodata |-> slf.measurement_properties[row].nodata,
                    uom |-> slf.measurement_properties[row].unit,
                    aliases |-> slf.measurement_properties[row].aliases]]]

GetCoverageDomainset ==
    /\ state = "constructed"
    /\ call.op = None
    /\ call' = [op |-> "get_coverage_domainset"]
    /\ loads' = <<>>
    /\ encoded' = <<>>
    /\ raised' = None
    /\ result' = get_coverage_domainset(self)
    /\ UNCHANGED <<provider_def, catalog, state, self, warnings>>

GetCoverageRangetype ==
    /\ state = "constructed"
    /\ call.op = None
    /\ call' = [op |-> "get_coverage_rangetype"]
    /\ loads' = <<>>
    /\ encoded' = <<>>
    /\ raised' = None
    /\ result' = get_coverage_rangetype(self)
    /\ UNCHANGED <<provider_def, catalog, state, self, warnings>>

(***************************************************************************)
(* gen_covjson() called directly, with the metadata and the dataset of a   *)
(* full-extent load.                                                       *)
(***************************************************************************)
GenCovjson ==
    /\ state = "constructed"
    /\ call.op = None
    /\ \E bands \in RangeSubsets \ {<<>>},
          times \in 1..MaxTimes, no_units \in NoUnits :
          LET cp == self.coverage_properties
              metadata == OutMeta(self, cp.bbox, bands)
              ld == dc_load(catalog, [x |-> cp.resx, y |-> cp.resy],
                            LoadParams(self, cp.bbox, <<>>), times, no_units)
              r == gen_covjson(self, catalog, metadata, ld.dataset)
          IN  /\ call' = [op |-> "gen_covjson", metadata |-> metadata,
                          dataset |-> ld.dataset]
              /\ raised' = r.raised
              /\ result' = r.cj
    /\ loads' = <<>>
    /\ encoded' = <<"CoverageJSON">>
    /\ UNCHANGED <<provider_def, catalog, state, self, warnings>>

(***************************************************************************)
(* Calls are synchronous: a call runs to completion and hands its result   *)
(* or its exception to the caller before the next call starts.             *)
(***************************************************************************)
Return ==
    /\ call.op # None
    /\ call' = [op |-> None]
    /\ loads' = <<>>
    /\ encoded' = <<>>
    /\ raised' = None
    /\ result' = None
    /\ UNCHANGED <<provider_def, catalog, state, self, warnings>>

(***************************************************************************)
(* Specifications.                                                         *)
(*                                                                         *)
(* Spec: the queries of a provider built on a catalog with one dataset.    *)
(* SpecResolve: construction and the descriptor operations over every      *)
(* catalog and provider definition of the model.                           *)
(***************************************************************************)
Fresh ==
    /\ state = "new"
    /\ self = NoSelf
    /\ warnings = {}
    /\ call = [op |-> None]
    /\ loads = <<>>
    /\ encoded = <<>>
    /\ raised = None
    /\ result = None

ProviderOptions == {<<>>, [compress |-> "lzw"]}

QueryCatalogs ==
    {c \in Catalogs : /\ c.reachable
                      /\ Len(c.datasets) = 1
                      /\ c.crs = None
                      /\ Len(c.measurements.rows) > 1}

Init ==
    /\ provider_def \in [product : {ProductName}, format : {"GTiff"},
                         options : ProviderOptions]
    /\ catalog \in QueryCatalogs
    /\ Fresh

Next ==
    \/ Construct
    \/ Query
    \/ GenCovjson
    \/ GetCoverageDomainset
    \/ GetCoverageRangetype
    \/ Return

Spec == Init /\ [][Next]_vars

InitResolve ==
    /\ provider_def \in ProviderDefs
    /\ catalog \in Catalogs
    /\ Fresh

NextResolve ==
    \/ Construct
    \/ GetCoverageDomainset
    \/ GetCoverageRangetype
    \/ Return

SpecResolve == InitResolve /\ [][NextResolve]_vars

(***************************************************************************)
(* Properties.                                                             *)
(***************************************************************************)
\* The axis labels of the native CRS: 'x'/'y' projected, 'Lon'/'Lat' else.
NativeLabels == IF self.crs_obj.projected THEN <<"x", "y">> ELSE <<"Lon", "Lat">>

InQuery == state = "constructed" /\ call.op = "query"

BothLabelsGiven ==
    /\ NativeLabels[1] \in DOMAIN call.subsets
    /\ NativeLabels[2] \in DOMAIN call.subsets

\* The window a call handed to the load, <<minx, miny, maxx, maxy>>.
LoadedWindow ==
    <<loads[1].params.x[1], loads[1].params.y[1],
      loads[1].params.x[2], loads[1].params.y[2]>>

\* The window a result reports, where the result carries one.
ReportsWindow(w) ==
    /\ result.kind = "CoverageJSON" =>
          /\ result.domain.x.start = w[1]
          /\ result.domain.y.start = w[2]
          /\ result.domain.x.stop = w[3]
          /\ result.domain.y.stop = w[4]
    /\ result.kind = "GeoTIFF" => result.meta.bbox = w

\* C1: a query given a non-empty bbox together with subsets for both native
\* axis labels ends in ProviderQueryError, whatever the values, bands and
\* format are, and neither the load nor any encoder runs in that call.
C1_BboxAndSubsetsExclusive ==
    (InQuery /\ Len(call.bbox) > 0 /\ BothLabelsGiven)
        => /\ raised = "ProviderQueryError"
           /\ loads = <<>>
           /\ encoded = <<>>

C1_Witness ==
    /\ InQuery
    /\ self.crs_obj.projected
    /\ Len(call.bbox) > 0
    /\ {"x", "y"} \subseteq DOMAIN call.subsets
    /\ call.format_ = "geotiff"
    /\ call.range_subset # <<>>
    /\ raised = "ProviderQueryError"

\* C2: with a native CRS of EPSG:4326 and a non-empty bbox (no conflicting
\* subsets), the window of the load and of the output is the bbox itself.
C2_GeographicBboxUsedUnchanged ==
    (InQuery /\ Len(call.bbox) > 0 /\ ~BothLabelsGiven
        /\ self.crs_obj.epsg = 4326 /\ Len(loads) = 1)
        => /\ LoadedWindow = call.bbox
           /\ ReportsWindow(call.bbox)

\* C3: with an empty bbox and subsets for both native axis labels, the
\* window is (subsets[x][0], subsets[y][0], subsets[x][1], subsets[y][1]),
\* taken literally; the load gets exactly these x and y ranges and the
\* output reports them.
C3_SubsetsTakenLiterally ==
    (InQuery /\ call.bbox = <<>> /\ BothLabelsGiven)
        => LET sx == call.subsets[NativeLabels[1]]
               sy == call.subsets[NativeLabels[2]]
           IN  /\ Len(loads) = 1
               /\ loads[1].params.x = <<sx[1], sx[2]>>
               /\ loads[1].params.y = <<sy[1], sy[2]>>
               /\ ReportsWindow(<<sx[1], sy[1], sx[2], sy[2]>>)

C3_Witness ==
    /\ InQuery
    /\ call.bbox = <<>>
    /\ BothLabelsGiven
    /\ call.subsets[NativeLabels[1]] # call.subsets[NativeLabels[2]]
    /\ raised = None
    /\ result.kind = "CoverageJSON"
    /\ result.domain.x.stop = call.subsets[NativeLabels[1]][2]

\* C4: with no spatial constraint (empty bbox, not both native axis labels
\* in subsets) the window of the load and of the output is the full bbox of
\* the coverage descriptor, for any band list and format.
C4_NoConstraintFullExtent ==
    (InQuery /\ call.bbox = <<>> /\ ~BothLabelsGiven)
        => /\ Len(loads) = 1
           /\ LoadedWindow = self.coverage_properties.bbox
           /\ ReportsWindow(self.coverage_properties.bbox)

C4_Witness ==
    /\ InQuery
    /\ call.bbox = <<>>
    /\ DOMAIN call.subsets = {"Lon"}
    /\ ~self.crs_obj.projected
    /\ call.range_subset # <<>>
    /\ raised = None
    /\ result.kind = "GeoTIFF"
    /\ result.meta.bbox = self.coverage_properties.bbox

\* C5: the encoding of a successful query is selected by format_ alone:
\* "json" gives CoverageJSON, "geotiff" in any letter case gives GeoTIFF,
\* every other value gives NetCDF; exactly one encoder runs.
C5_FormatSelectsEncoder ==
    (InQuery /\ raised = None)
        => LET expected ==
                   IF call.format_ = "json" THEN "CoverageJSON"
                   ELSE IF call.format_ \in {"geotiff", "GeoTIFF"}
                   THEN "GeoTIFF"
                   ELSE "NetCDF"
           IN  /\ result.kind = expected
               /\ encoded = <<expected>>

C5_Witness ==
    /\ InQuery
    /\ raised = None
    /\ call.format_ = "GeoTIFF"
    /\ result.kind = "GeoTIFF"
    /\ encoded = <<"GeoTIFF">>

\* C6: construction either succeeds or ends in ProviderConnectionError:
\* every failure during construction (catalog unreachable, product not
\* found, missing provider_def key, a failing normalisation step, a product
\* without datasets) surfaces as ProviderConnectionError.
C6_ConstructionFailsAsConnectionError ==
    (call.op = "__init__" /\ state = "failed")
        => raised = "ProviderConnectionError"

\* The bands a call encodes: the requested ones, or all loaded ones.
EncodedBands ==
    IF call.range_subset # <<>> THEN call.range_subset
    ELSE loads[1].dataset.keys

\* gen_covjson meets a band whose 'units' attribute (or the band) is absent.
UnitsLookupFails ==
    /\ InQuery
    /\ call.format_ = "json"
    /\ Len(loads) = 1
    /\ loads[1].dataset.times > 0
    /\ \E i \in 1..Len(EncodedBands) :
          \/ EncodedBands[i] = loads[1].dataset.no_units
          \/ EncodedBands[i] \notin Range(loads[1].dataset.keys)

\* C7: when gen_covjson reads the 'units' attribute of a requested band and
\* the band or the attribute is absent, the 'json' query ends in
\* ProviderQueryError and in no other exception.
C7_MissingUnitsIsQueryError ==
    UnitsLookupFails => raised = "ProviderQueryError"

\* C8: in every CoverageJSON document a query returns, for every band of
\* 'ranges' the number of values equals shape[0] * shape[1], with
\* shape = [height, width] the window's extent over the resolution.
C8_ValuesLengthMatchesShape ==
    (InQuery /\ raised = None /\ result.kind = "CoverageJSON")
        => \A i \in 1..Len(result.ranges) :
              LET r == result.ranges[i]
              IN  r.values * r.shape[1].den * r.shape[2].den
                      = r.shape[1].num * r.shape[2].num

\* Position of the first occurrence of a name in a sequence.
FirstIndex(s, name) ==
    CHOOSE i \in 1..Len(s) :
        /\ s[i] = name
        /\ \A j \in 1..(i - 1) : s[j] # name

\* keys lists exactly the names of s, once each, in the order in which
\* they first occur in s.
InRequestOrder(keys, s) ==
    /\ Range(keys) = Range(s)
    /\ \A i, j \in 1..Len(keys) :
          i < j => FirstIndex(s, keys[i]) < FirstIndex(s, keys[j])

\* C9: a non-empty range_subset restricts the load to exactly those bands
\* and the CoverageJSON 'parameters' and 'ranges' keys are the requested
\* names in request order; an empty range_subset passes no band
\* restriction and the output holds every loaded band in the loaded order;
\* 'parameters' and 'ranges' always have the same keys.
C9_BandSelection ==
    (InQuery /\ Len(loads) = 1)
        => /\ call.range_subset # <<>> =>
                 /\ "measurements" \in DOMAIN loads[1].params
                 /\ loads[1].params.measurements = call.range_subset
           /\ call.range_subset = <<>> =>
                 "measurements" \notin DOMAIN loads[1].params
           /\ (raised = None /\ result.kind = "CoverageJSON") =>
                 LET pkeys == [i \in 1..Len(result.parameters) |->
                                  result.parameters[i].key]
                     rkeys == [i \in 1..Len(result.ranges) |->
                                  result.ranges[i].key]
                 IN  /\ pkeys = rkeys
                     /\ call.range_subset # <<>> =>
                           InRequestOrder(pkeys, call.range_subset)
                     /\ call.range_subset = <<>> =>
                           pkeys = loads[1].dataset.keys

C9_Witness ==
    /\ InQuery
    /\ raised = None
    /\ result.kind = "CoverageJSON"
    /\ call.range_subset = <<"B03", "B02">>
    /\ Len(result.ranges) = 2
    /\ result.ranges[1].key = "B03"

C9_WitnessAllBands ==
    /\ InQuery
    /\ raised = None
    /\ result.kind = "CoverageJSON"
    /\ call.range_subset = <<>>
    /\ Len(result.parameters) = 2

\* b is the smallest box that contains the bounds of every dataset.
IsUnionEnvelope(b, datasets) ==
    /\ \A i \in 1..Len(datasets) :
          /\ b[1] <= datasets[i].bounds.left
          /\ b[2] <= datasets[i].bounds.bottom
          /\ b[3] >= datasets[i].bounds.right
          /\ b[4] >= datasets[i].bounds.top
    /\ \E i \in 1..Len(datasets) : b[1] = datasets[i].bounds.left
    /\ \E i \in 1..Len(datasets) : b[2] = datasets[i].bounds.bottom
    /\ \E i \in 1..Len(datasets) : b[3] = datasets[i].bounds.right
    /\ \E i \in 1..Len(datasets) : b[4] = datasets[i].bounds.top

\* The fraction q equals |extent / res|.
IsAbsQuotient(q, extent, res) ==
    /\ q.den > 0
    /\ q.num >= 0
    /\ q.num * Abs(res) = q.den * Abs(extent)

\* C10: for every constructed provider width = |(right - left) / resx| and
\* height = |(top - bottom) / resy|, bbox being the union envelope of all
\* dataset bounds and resx, resy the resolved resolutions; the domainset
\* grid limits report i in [0, width] and j in [0, height].
C10_GridSize ==
    state = "constructed"
        => LET cp == self.coverage_properties
               resx == IF catalog.resolution # NaN THEN catalog.resolution[2]
                       ELSE catalog.datasets[1].transform[1]
               resy == IF catalog.resolution # NaN THEN catalog.resolution[1]
                       ELSE catalog.datasets[1].transform[5]
           IN  /\ IsUnionEnvelope(cp.bbox, catalog.datasets)
               /\ cp.resx = resx
               /\ cp.resy = resy
               /\ IsAbsQuotient(cp.width, cp.bbox[3] - cp.bbox[1], resx)
               /\ IsAbsQuotient(cp.height, cp.bbox[4] - cp.bbox[2], resy)
               /\ call.op = "get_coverage_domainset" =>
                     /\ result.gridLimits[1].axisLabel = "i"
                     /\ result.gridLimits[1].lowerBound = 0
                     /\ result.gridLimits[1].upperBound = cp.width
                     /\ result.gridLimits[2].axisLabel = "j"
                     /\ result.gridLimits[2].lowerBound = 0
                     /\ result.gridLimits[2].upperBound = cp.height

C10_Witness ==
    /\ state = "constructed"
    /\ call.op = "get_coverage_domainset"
    /\ Len(catalog.datasets) > 1
    /\ catalog.datasets[1].bounds # catalog.datasets[2].bounds
    /\ self.coverage_properties.width.den > 1
    /\ result.gridLimits[1].upperBound = self.coverage_properties.width

\* C11: once constructed, the provider's descriptors never change: every
\* query(), gen_covjson(), get_coverage_domainset() and
\* get_coverage_rangetype() call, succeeding or raising, leaves
\* _coverage_properties, _measurement_properties and crs_obj (and the
\* other fields) as __init__ set them.
C11_DescriptorsReadOnly ==
    [][state = "constructed" =>
          /\ state' = "constructed"
          /\ self'.coverage_properties = self.coverage_properties
          /\ self'.measurement_properties = self.measurement_properties
          /\ self'.crs_obj = self.crs_obj
          /\ self' = self]_vars

\* A query that loaded a window other than the full extent and then raised,
\* on a provider whose descriptor still holds the extent of its dataset.
C11_Witness ==
    /\ InQuery
    /\ raised = "KeyError"
    /\ Len(loads) = 1
    /\ LoadedWindow # self.coverage_properties.bbox
    /\ self.coverage_properties.bbox
           = <<catalog.datasets[1].bounds.left,
               catalog.datasets[1].bounds.bottom,
               catalog.datasets[1].bounds.right,
               catalog.datasets[1].bounds.top>>
    /\ self.crs_obj = catalog.datasets[1].crs

\* The datasets of the catalog disagree on the CRS / the resolution / the
\* transform.
CrsDisagree ==
    \E i, j \in 1..Len(catalog.datasets) :
        catalog.datasets[i].crs # catalog.datasets[j].crs

ResolutionsDisagree ==
    \E i, j \in 1..Len(catalog.datasets) :
        \/ catalog.datasets[i].transform[1] # catalog.datasets[j].transform[1]
        \/ catalog.datasets[i].transform[5] # catalog.datasets[j].transform[5]

TransformsDisagree ==
    \E i, j \in 1..Len(catalog.datasets) :
        catalog.datasets[i].transform # catalog.datasets[j].transform

\* Construction meets nothing that fails it apart from the datasets.
ConstructibleInputs ==
    /\ catalog.reachable
    /\ provider_def.product = ProductName
    /\ provider_def.format # NoKey
    /\ catalog.datasets # <<>>

\* C12: datasets that disagree on CRS, resolution or transform make the
\* resolution of the descriptor log a warning and not fail; the CRS is the
\* product-level CRS when given and non-null, else the first dataset's; resx
\* and resy are the product-level resolution when given, else the first
\* dataset's; the transform is the first dataset's; no later dataset's CRS,
\* resolution or transform enters the result.
C12_FirstDatasetWins ==
    (state # "new" /\ ConstructibleInputs)
        => LET first == catalog.datasets[1]
               cp == self.coverage_properties
           IN  /\ state = "constructed"
               /\ CrsDisagree => "different crs" \in warnings
               /\ ResolutionsDisagree
                      => "different resolutions" \in warnings
               /\ TransformsDisagree
                      => "different transforms" \in warnings
               /\ self.crs_obj =
                      (CASE catalog.crs = "EPSG:4326" -> WGS84
                         [] catalog.crs = "EPSG:32633" -> UTM33N
                         [] OTHER -> first.crs)
               /\ cp.resx = (IF catalog.resolution = NaN
                             THEN first.transform[1]
                             ELSE catalog.resolution[2])
               /\ cp.resy = (IF catalog.resolution = NaN
                             THEN first.transform[5]
                             ELSE catalog.resolution[1])
               /\ cp.transform = first.transform

\* Two datasets that differ in CRS, resolution and transform, no
\* product-level CRS or resolution: built with the first dataset's values.
C12_Witness ==
    /\ state = "constructed"
    /\ Len(catalog.datasets) > 1
    /\ CrsDisagree
    /\ ResolutionsDisagree
    /\ catalog.crs = "NaN"
    /\ catalog.resolution = NaN
    /\ warnings = {"different crs", "different resolutions",
                   "different transforms"}
    /\ self.crs_obj = catalog.datasets[1].crs
    /\ self.crs_obj # catalog.datasets[2].crs
    /\ self.coverage_properties.transform # catalog.datasets[2].transform

\* C13: the metadata a 'geotiff' query hands to the GeoTIFF writer has the
\* dtype and nodata of the first measurement whatever bands were requested,
\* count = the number of bands of the output band list (the requested ones,
\* or all loaded ones), crs = the native EPSG code, and transform = the
\* descriptor's stored affine transform, whatever the window is.
C13_GeotiffMeta ==
    (InQuery /\ call.format_ \in {"geotiff", "GeoTIFF"}
        /\ encoded = <<"GeoTIFF">> /\ raised = None)
        => /\ result.kind = "GeoTIFF"
           /\ result.meta.driver = "GTiff"
           /\ result.meta.dtype = catalog.measurements.rows[1].dtype
           /\ result.meta.nodata = catalog.measurements.rows[1].nodata
           /\ result.meta.dtype = self.measurement_properties[1].dtype
           /\ result.meta.nodata = self.measurement_properties[1].nodata
           /\ result.meta.count = Len(EncodedBands)
           /\ result.meta.crs = self.crs_obj.epsg
           /\ result.meta.transform = self.coverage_properties.transform
           /\ result.meta.transform = catalog.datasets[1].transform

\* Only the second band is requested, on a window inside the extent.
C13_Witness ==
    /\ InQuery
    /\ call.format_ = "geotiff"
    /\ call.range_subset = <<"B03">>
    /\ raised = None
    /\ result.kind = "GeoTIFF"
    /\ result.meta.dtype = "int16"
    /\ result.meta.count = 1
    /\ result.meta.bbox # self.coverage_properties.bbox
    /\ result.meta.transform = self.coverage_properties.transform

====
